---------------------------- MODULE Spec2Model ----------------------------
(***************************************************************************)
(* Model of the retrieval core of Vasp-Wiki-Agent:                         *)
(*   - EmbeddingGenerator (backend/rag/embeddings.py): remote (Gemini)     *)
(*     provider with a local sentence-transformers fallback;               *)
(*   - FAISSVectorStore (backend/rag/vector_store.py): in-memory index     *)
(*     plus its two on-disk artifacts;                                     *)
(*   - TextChunker (backend/rag/chunker.py): sections, then paragraphs,    *)
(*     then sentences, and size-based chunks with overlap for plain text.  *)
(*   - the service (backend/rag/rag_agent.py, scripts/build_index.py,      *)
(*     backend/api/routes.py, backend/main.py): the agent made at start-up *)
(*     and the routes health, query and rebuild-index.                     *)
(* Python's None is the empty set and a present value x is {x}.            *)
(***************************************************************************)
EXTENDS Integers, Sequences, FiniteSets, TLC

VARIABLES
    \* ---- EmbeddingGenerator fields
    use_gemini,             \* self.use_gemini
    gemini_client,          \* self.gemini_client is not None
    gemini_quota_exceeded,  \* self.gemini_quota_exceeded
    api_key,                \* settings.gemini_api_key is set
    numpy_ragged_raises,    \* the installed NumPy rejects ragged input to np.array
    \* ---- observation of the last EmbeddingGenerator call
    emb_op,                 \* "init", "embed_text", "embed_batch", or "idle" once the
                            \* caller has taken the result
    emb_texts,              \* the texts handed to the last call
    emb_pre,                \* the flags when the last call started
    emb_calls,              \* the provider calls the last call made, in order
    emb_result,             \* what the last call returned or raised
    emb_tripped,            \* an earlier embed_batch reached max_failures
    \* ---- FAISSVectorStore fields
    index,                  \* self.index: None, or the FAISS index (its d, its vectors)
    metadata,               \* self.metadata
    dimension,              \* self.dimension
    \* ---- the index directory
    index_file,             \* index.faiss: None when absent
    metadata_file,          \* metadata.json: None when absent
    \* ---- observation of the last FAISSVectorStore call
    next_id,                \* names the next vector and metadata record handed in
    vs_op,                  \* the last call, or "idle" once the caller has gone on
    vs_args,                \* its arguments
    vs_pre,                 \* index, metadata and dimension when it started
    vs_err,                 \* the exception it raised, or "none"
    vs_result,              \* what search or get_stats returned
    vs_prev                 \* the call the last one followed at once, and how it
                            \* ended; "idle" when the caller did something else between
VARIABLES
    \* ---- TextChunker fields
    chunk_size,             \* self.chunk_size
    chunk_overlap,          \* self.chunk_overlap
    min_chunk_size,         \* self.min_chunk_size
    \* ---- the last TextChunker call
    ck_op,                  \* "init" or "chunk_document"
    document,               \* the document handed to chunk_document
    chunks                  \* the chunks it returned
VARIABLES
    \* ---- the service
    rag_agent,              \* routes.rag_agent: None, or the RAGAgent (its vector store)
    faiss_index_path,       \* the directory settings.faiss_index_path: its two files
    \* ---- the last operation of the service
    svc_op,                 \* "lifespan", a route, or "RAGAgent.query"
    svc_request,            \* the query and top_k of a query
    svc_response,           \* what it answered or raised
    all_chunks              \* the chunks of the build_index that has just run

embVars == <<use_gemini, gemini_client, gemini_quota_exceeded, api_key,
             numpy_ragged_raises, emb_op, emb_texts, emb_pre, emb_calls,
             emb_result, emb_tripped>>

storeVars == <<index, metadata, dimension, index_file, metadata_file,
               next_id, vs_op, vs_args, vs_pre, vs_err, vs_result, vs_prev>>

chunkVars == <<chunk_size, chunk_overlap, min_chunk_size, ck_op, document, chunks>>

svcVars == <<rag_agent, faiss_index_path, svc_op, svc_request, svc_response, all_chunks>>

vars == <<embVars, storeVars, chunkVars, svcVars>>

None == {}
Some(x) == {x}
TheValue(opt) == CHOOSE x \in opt : TRUE

-----------------------------------------------------------------------------
(* Bounds of the model *)

MaxBatch == 5

\* Rows handed to one add_documents call, and entries ever handed to a store.
MaxRows == 2
MaxEntries == 3

\* The largest top_k handed to search.
MaxK == 3

\* Sentences in one document.
MaxPieces == 3

\* The texts of a call are told apart by their position in the call.
TextIds == 1..MaxBatch

Texts == {[k \in 1..n |-> k] : n \in 0..MaxBatch}

-----------------------------------------------------------------------------
(* EmbeddingGenerator *)

\* all-MiniLM-L6-v2 produces 384 numbers, Gemini's embedding-001 768.
FallbackDim == 384
GeminiDim == 768

max_failures == 3

\* settings.chunk_size, settings.chunk_overlap, settings.min_chunk_size
settings_chunk_size == 512
settings_chunk_overlap == 50
settings_min_chunk_size == 100

\* settings.top_k
top_k_default == 5

\* What one genai.embed_content request can do.
RemoteOutcomes == {"ok", "unexpected_format", "attribute_error", "quota", "error"}

GeminiVector(text) == [text |-> text, provider |-> "gemini", dim |-> GeminiDim]
FallbackVector(text) == [text |-> text, provider |-> "local", dim |-> FallbackDim]

GeminiCall(text, outcome) ==
    [provider |-> "gemini", texts |-> <<text>>, batched |-> FALSE, outcome |-> outcome]
FallbackCall(text) ==
    [provider |-> "local", texts |-> <<text>>, batched |-> FALSE, outcome |-> "ok"]
FallbackBatchCall(texts) ==
    [provider |-> "local", texts |-> texts, batched |-> TRUE, outcome |-> "ok"]

\* The constructor: the fields of a new instance whose fallback model loaded.
EmbeddingGenerator_init_NoKeyCheck(use_gemini_arg, use_gemini_embeddings, key, configure_ok) ==
    LET requested == IF use_gemini_arg = None THEN use_gemini_embeddings
                     ELSE TheValue(use_gemini_arg)
    IN  [use_gemini |-> requested /\ configure_ok,
         gemini_client |-> requested /\ configure_ok,
         gemini_quota_exceeded |-> FALSE]

EmbeddingGenerator_init(use_gemini_arg, use_gemini_embeddings, key, configure_ok) ==
    LET requested == IF use_gemini_arg = None THEN use_gemini_embeddings
                     ELSE TheValue(use_gemini_arg)
    IN  [use_gemini |-> requested /\ key /\ configure_ok,
         gemini_client |-> requested /\ key /\ configure_ok,
         gemini_quota_exceeded |-> FALSE]

\* A quota/rate-limit exception sets both flags; everything else leaves them.
QuotaFlags_NoLatch(st, outcome) == st

QuotaFlags(st, outcome) ==
    IF outcome = "quota"
    THEN [st EXCEPT !.gemini_quota_exceeded = TRUE, !.use_gemini = FALSE]
    ELSE st

\* _get_gemini_embedding: st holds the instance flags and the call log.
get_gemini_embedding(st, text, outcome) ==
    IF st.gemini_quota_exceeded
    THEN [st |-> st, embedding |-> None]
    ELSE LET st1 == [QuotaFlags(st, outcome) EXCEPT
                        !.calls = Append(st.calls, GeminiCall(text, outcome))]
         IN  [st |-> st1,
              embedding |-> IF outcome = "ok" THEN Some(GeminiVector(text)) ELSE None]

\* _get_fallback_embedding
get_fallback_embedding(st, text) ==
    [st |-> [st EXCEPT !.calls = Append(st.calls, FallbackCall(text))],
     embedding |-> FallbackVector(text)]

\* self.fallback_model.encode(texts, batch_size=...)
fallback_encode(st, texts) ==
    [st |-> [st EXCEPT !.calls = Append(st.calls, FallbackBatchCall(texts))],
     embeddings |-> [k \in 1..Len(texts) |-> FallbackVector(texts[k])]]

UseRemote_Always(st) == ~st.gemini_quota_exceeded

\* embed_text's guard: self.use_gemini and self.gemini_client
UseRemote(st) == st.use_gemini /\ st.gemini_client

embed_text_fn(st, text, outcome) ==
    IF UseRemote(st)
    THEN LET g == get_gemini_embedding(st, text, outcome)
         IN  IF g.embedding # None
             THEN [st |-> g.st, embedding |-> TheValue(g.embedding)]
             ELSE get_fallback_embedding(g.st, text)
    ELSE get_fallback_embedding(st, text)

\* remaining_texts = texts[i + 1:], with the code's 0-based i being i - 1 here
Remaining(texts, i) == SubSeq(texts, i + 1, Len(texts))

ShouldSwitch_QuotaOnly(st, consecutive_failures) == st.gemini_quota_exceeded

\* if self.gemini_quota_exceeded or consecutive_failures >= max_failures
ShouldSwitch(st, consecutive_failures) ==
    st.gemini_quota_exceeded \/ consecutive_failures >= max_failures

AfterSuccess_KeepCount(consecutive_failures) == consecutive_failures

\* consecutive_failures = 0  # Reset counter on success
AfterSuccess(consecutive_failures) == 0

\* The for loop of embed_batch from item i on.  acc: the flags and call log (st),
\* the embeddings so far, the counter, and whether the loop broke at the threshold.
RECURSIVE GeminiLoop(_, _, _, _)
GeminiLoop(texts, outcomes, i, acc) ==
    IF i > Len(texts) THEN acc
    ELSE LET g == get_gemini_embedding(acc.st, texts[i], outcomes[i])
         IN  IF g.embedding # None
             THEN GeminiLoop(texts, outcomes, i + 1,
                      [acc EXCEPT !.st = g.st,
                                  !.embeddings = Append(acc.embeddings, TheValue(g.embedding)),
                                  !.consecutive_failures = AfterSuccess(acc.consecutive_failures),
                                  !.counts = Append(acc.counts, AfterSuccess(acc.consecutive_failures))])
             ELSE LET f == get_fallback_embedding(g.st, texts[i])
                      n == acc.consecutive_failures + 1
                      acc1 == [acc EXCEPT !.st = f.st,
                                          !.embeddings = Append(acc.embeddings, f.embedding),
                                          !.consecutive_failures = n,
                                          !.counts = Append(acc.counts, n)]
                  IN  IF ShouldSwitch(f.st, n)
                      THEN LET remaining_texts == Remaining(texts, i)
                               acc2 == [acc1 EXCEPT !.switched_at = i,
                                            !.tripped = ~f.st.gemini_quota_exceeded]
                           IN  IF remaining_texts # <<>>
                               THEN LET r == fallback_encode(f.st, remaining_texts)
                                    IN  [acc2 EXCEPT !.st = r.st,
                                            !.embeddings = acc1.embeddings \o r.embeddings]
                               ELSE acc2
                      ELSE GeminiLoop(texts, outcomes, i + 1, acc1)

SameDim(embeddings) ==
    \A a, b \in 1..Len(embeddings) : embeddings[a].dim = embeddings[b].dim

\* np.array(list of vectors): a 2-D array when the rows have one length; for rows
\* of different lengths NumPy 1.24 and later raises ValueError, and earlier
\* versions build a 1-D array of objects.
np_array(embeddings, ragged_raises) ==
    IF SameDim(embeddings) \/ ~ragged_raises
    THEN [raised |-> "none", vectors |-> embeddings]
    ELSE [raised |-> "ValueError", vectors |-> <<>>]

\* embed_batch's guard
BatchUsesRemote(st) ==
    st.use_gemini /\ st.gemini_client /\ ~st.gemini_quota_exceeded

embed_batch_fn(st, texts, outcomes, ragged_raises) ==
    IF texts = <<>>
    THEN [st |-> st, result |-> [raised |-> "none", vectors |-> <<>>],
          tripped |-> FALSE, switched_at |-> 0, counts |-> <<>>]
    ELSE IF BatchUsesRemote(st)
    THEN LET acc == GeminiLoop(texts, outcomes, 1,
                        [st |-> st, embeddings |-> <<>>, consecutive_failures |-> 0,
                         counts |-> <<>>, switched_at |-> 0, tripped |-> FALSE])
         IN  [st |-> acc.st, result |-> np_array(acc.embeddings, ragged_raises),
              tripped |-> acc.tripped, switched_at |-> acc.switched_at,
              counts |-> acc.counts]
    ELSE LET r == fallback_encode(st, texts)
         IN  [st |-> r.st, result |-> [raised |-> "none", vectors |-> r.embeddings],
              tripped |-> FALSE, switched_at |-> 0, counts |-> <<>>]

Flags == [use_gemini |-> use_gemini, gemini_client |-> gemini_client,
          gemini_quota_exceeded |-> gemini_quota_exceeded]

NoResult == [raised |-> "none", vectors |-> <<>>, switched_at |-> 0, counts |-> <<>>]

\* A store on an empty directory, before any call.
NoArgs == [shape |-> <<>>, documents |-> 0, fault |-> "none",
           query |-> <<>>, top_k |-> None]
NoCall == [op |-> "idle", err |-> "none"]
NoDocument == [sectioned |-> FALSE, pieces |-> <<>>, breaks |-> <<>>]

\* The service before it is started, on an empty directory.
EmptyPath == [index_file |-> None, metadata_file |-> None]
NoRequest == [query |-> <<>>, top_k |-> None]
NoResponse == [raised |-> "none", status_code |-> None, status |-> "none",
               answer |-> "none", sources |-> <<>>, num_sources |-> 0,
               num_documents |-> None, llm_calls |-> 0]

\* A new EmbeddingGenerator; the vector store is a new one on an empty directory.
EmbInit ==
    /\ api_key \in BOOLEAN
    /\ numpy_ragged_raises \in BOOLEAN
    /\ \E use_gemini_arg \in {None, Some(TRUE), Some(FALSE)},
          use_gemini_embeddings \in BOOLEAN, configure_ok \in BOOLEAN :
          LET o == EmbeddingGenerator_init(use_gemini_arg, use_gemini_embeddings,
                                           api_key, configure_ok)
          IN  /\ use_gemini = o.use_gemini
              /\ gemini_client = o.gemini_client
              /\ gemini_quota_exceeded = o.gemini_quota_exceeded
              /\ emb_pre = o @@ [tripped |-> FALSE]
    /\ emb_op = "init"
    /\ emb_texts = <<>>
    /\ emb_calls = <<>>
    /\ emb_result = NoResult
    /\ emb_tripped = FALSE
    /\ index = None
    /\ metadata = <<>>
    /\ dimension = None
    /\ index_file = None
    /\ metadata_file = None
    /\ next_id = 1
    /\ vs_op = "init"
    /\ vs_args = NoArgs
    /\ vs_pre = [index |-> None, metadata |-> <<>>, dimension |-> None]
    /\ vs_err = "none"
    /\ vs_result = <<>>
    /\ vs_prev = NoCall
    /\ chunk_size = settings_chunk_size
    /\ chunk_overlap = settings_chunk_overlap
    /\ min_chunk_size = settings_min_chunk_size
    /\ ck_op = "init"
    /\ document = NoDocument
    /\ chunks = <<>>
    /\ rag_agent = None
    /\ faiss_index_path = EmptyPath
    /\ svc_op = "init"
    /\ svc_request = NoRequest
    /\ svc_response = NoResponse
    /\ all_chunks = <<>>

\* The caller has the result of the last call and goes on.
emb_return ==
    /\ emb_op \in {"init", "embed_text", "embed_batch"}
    /\ emb_op' = "idle"
    /\ emb_texts' = <<>>
    /\ emb_calls' = <<>>
    /\ emb_result' = NoResult
    /\ emb_pre' = Flags @@ [tripped |-> emb_tripped]
    /\ UNCHANGED <<use_gemini, gemini_client, gemini_quota_exceeded, api_key,
                   numpy_ragged_raises, emb_tripped>>
    /\ UNCHANGED <<storeVars, chunkVars, svcVars>>

embed_text ==
    /\ emb_op = "idle"
    /\ \E text \in TextIds, outcome \in RemoteOutcomes :
        LET r == embed_text_fn(Flags @@ [calls |-> <<>>], text, outcome)
        IN  /\ use_gemini' = r.st.use_gemini
            /\ gemini_client' = r.st.gemini_client
            /\ gemini_quota_exceeded' = r.st.gemini_quota_exceeded
            /\ emb_op' = "embed_text"
            /\ emb_texts' = <<text>>
            /\ emb_pre' = Flags @@ [tripped |-> emb_tripped]
            /\ emb_calls' = r.st.calls
            /\ emb_result' = [raised |-> "none", vectors |-> <<r.embedding>>,
                              switched_at |-> 0, counts |-> <<>>]
            /\ UNCHANGED <<api_key, numpy_ragged_raises, emb_tripped>>
    /\ UNCHANGED <<storeVars, chunkVars, svcVars>>

embed_batch ==
    /\ emb_op = "idle"
    /\ \E texts \in Texts :
       \E outcomes \in [1..Len(texts) -> RemoteOutcomes] :
        LET r == embed_batch_fn(Flags @@ [calls |-> <<>>], texts, outcomes,
                                numpy_ragged_raises)
        IN  /\ use_gemini' = r.st.use_gemini
            /\ gemini_client' = r.st.gemini_client
            /\ gemini_quota_exceeded' = r.st.gemini_quota_exceeded
            /\ emb_op' = "embed_batch"
            /\ emb_texts' = texts
            /\ emb_pre' = Flags @@ [tripped |-> emb_tripped]
            /\ emb_calls' = r.st.calls
            /\ emb_result' = r.result @@ [switched_at |-> r.switched_at, counts |-> r.counts]
            /\ emb_tripped' = (emb_tripped \/ r.tripped)
            /\ UNCHANGED <<api_key, numpy_ragged_raises>>
    /\ UNCHANGED <<storeVars, chunkVars, svcVars>>

EmbNext == embed_text \/ embed_batch \/ emb_return

SpecEmb == EmbInit /\ [][EmbNext]_vars

-----------------------------------------------------------------------------
(* FAISSVectorStore *)

Dims == {FallbackDim, GeminiDim}

Store == [index |-> index, metadata |-> metadata, dimension |-> dimension,
          index_file |-> index_file, metadata_file |-> metadata_file]

InMemory(st) == [index |-> st.index, metadata |-> st.metadata, dimension |-> st.dimension]

\* The fields __init__ sets before it loads.
EmptyFields(st) == [st EXCEPT !.index = None, !.metadata = <<>>, !.dimension = None]

\* A file that exists and cannot be parsed (a write that failed part-way).
Truncated == [ok |-> FALSE, d |-> 0, vecs |-> <<>>, docs |-> <<>>]
IndexFileOf_DropLast(ix) ==
    [ok |-> TRUE, d |-> ix.d, vecs |-> SubSeq(ix.vecs, 1, Len(ix.vecs) - 1), docs |-> <<>>]
IndexFileOf(ix) == [ok |-> TRUE, d |-> ix.d, vecs |-> ix.vecs, docs |-> <<>>]
MetadataFileOf(docs) == [ok |-> TRUE, d |-> 0, vecs |-> <<>>, docs |-> docs]

BothExist_IndexOnly(st) == st.index_file # None

\* self.index_file.exists() and self.metadata_file.exists()
BothExist(st) == st.index_file # None /\ st.metadata_file # None

\* _load_index: the assignments made before an exception stay.
load_index_fn(st) ==
    IF BothExist(st)
    THEN LET f == TheValue(st.index_file)
         IN  IF ~f.ok THEN st
             ELSE LET st1 == [st EXCEPT !.index = Some([d |-> f.d, vecs |-> f.vecs])]
                  IN  IF st.metadata_file = None \/ ~TheValue(st.metadata_file).ok
                      THEN st1
                      ELSE [st1 EXCEPT !.metadata = TheValue(st.metadata_file).docs,
                                       !.dimension = Some(f.d)]
    ELSE st

\* ---- vectors.  A vector of width d is given by its two leading coordinates, the
\* others being zero; coordinates are integers and a vector of length 1 has length
\* Unit here, so squared distances are in units of 1/Unit^2.
Unit == 5

\* The vectors the callers hand in: the vector named id, before normalisation.
RawVectors == << <<3, 4>>, <<6, 8>>, <<-4, 3>>, <<0, 10>> >>
Raw(id) == RawVectors[((id - 1) % Len(RawVectors)) + 1]

\* The query vectors: along the first stored vector, against it, and the zero vector.
Queries == { <<3, 4>>, <<-6, -8>>, <<0, 0>> }

Abs(x) == IF x < 0 THEN -x ELSE x
SquaredLength(v) == v[1] * v[1] + v[2] * v[2]
Norm(v) == CHOOSE n \in 0..(Abs(v[1]) + Abs(v[2])) : n * n = SquaredLength(v)

\* faiss.normalize_L2: each row is divided by its length; a zero row stays as it is.
normalize_L2(v) ==
    IF Norm(v) = 0 THEN v ELSE [i \in DOMAIN v |-> (v[i] * Unit) \div Norm(v)]

\* Squared L2 distance, what IndexFlatL2 reports.
L2sq(a, b) == SquaredLength([i \in DOMAIN a |-> a[i] - b[i]])

\* The distance IndexFlatL2.search reports in a slot that has no neighbour
\* (FLT_MAX, about 3.4e38), with label -1.
FLT_MAX == 1000000

\* The positions in S, nearest to q first; equal distances in the order of insertion.
RECURSIVE Nearest(_, _, _)
Nearest(vecs, q, S) ==
    IF S = {} THEN <<>>
    ELSE LET b == CHOOSE i \in S : \A j \in S :
                      \/ L2sq(q, vecs[i].v) < L2sq(q, vecs[j].v)
                      \/ L2sq(q, vecs[i].v) = L2sq(q, vecs[j].v) /\ i <= j
         IN  <<b>> \o Nearest(vecs, q, S \ {b})

\* self.index.search(query, k): k slots, the neighbours found and then the empty
\* slots; labels count from 0.
faiss_search(ix, q, k) ==
    LET order == Nearest(ix.vecs, q, DOMAIN ix.vecs)
    IN  [j \in 1..k |->
            IF j <= Len(order)
            THEN [dist |-> L2sq(q, ix.vecs[order[j]].v), idx |-> order[j] - 1]
            ELSE [dist |-> FLT_MAX, idx |-> -1]]

\* Python's list[i]: a negative i counts from the end; outside -len..len-1 it
\* raises IndexError.
PyInRange(list, i) == -Len(list) <= i /\ i < Len(list)
PyIndex(list, i) == IF i >= 0 THEN list[i + 1] ELSE list[Len(list) + i + 1]

\* similarity = 1 - (dist / 2.0), in units of 1/(2 * Unit^2).
Similarity(dist) == 2 * Unit * Unit - dist
One == 2 * Unit * Unit

SearchIsEmpty_IndexOnly(st) == st.index = None

\* self.index is None or len(self.metadata) == 0
SearchIsEmpty(st) == st.index = None \/ Len(st.metadata) = 0

\* if idx < len(self.metadata)
KeepLabel(st, idx) == idx < Len(st.metadata)

\* top_k or settings.top_k
EffectiveK(top_k) ==
    IF top_k = None \/ top_k = Some(0) THEN top_k_default ELSE TheValue(top_k)

\* search.  query: its vector and its width.
search_fn(st, query, top_k) ==
    IF SearchIsEmpty(st) THEN [hits |-> <<>>, err |-> "none"]
    ELSE LET ix == TheValue(st.index)
         IN  IF query.width # ix.d THEN [hits |-> <<>>, err |-> "AssertionError"]
             ELSE LET found == faiss_search(ix, normalize_L2(query.v), EffectiveK(top_k))
                      kept == SelectSeq(found, LAMBDA h : KeepLabel(st, h.idx))
                  IN  IF \E j \in DOMAIN kept : ~PyInRange(st.metadata, kept[j].idx)
                      THEN [hits |-> <<>>, err |-> "IndexError"]
                      ELSE [hits |-> [j \in DOMAIN kept |->
                                        [doc |-> PyIndex(st.metadata, kept[j].idx),
                                         similarity |-> Similarity(kept[j].dist)]],
                            err |-> "none"]

\* get_stats
get_stats(st) ==
    [num_documents |-> Len(st.metadata), dimension |-> st.dimension,
     index_type |-> "flat"]

\* _create_index
create_index(st, dim) ==
    [st EXCEPT !.index = Some([d |-> dim, vecs |-> <<>>]), !.dimension = Some(dim)]

\* len(embeddings) != len(documents)
CountMismatch(embeddings, documents) == embeddings.shape[1] # Len(documents)

IsEmptyBatch_Never(embeddings) == FALSE

\* embeddings.shape[0] == 0
IsEmptyBatch(embeddings) == embeddings.shape[1] = 0

DimensionMismatch_Never(st, dim) == FALSE

\* self.dimension != dimension
DimensionMismatch(st, dim) == st.dimension # Some(dim)

\* faiss.normalize_L2(embeddings)
normalized(rows) == [k \in DOMAIN rows |-> [rows[k] EXCEPT !.v = normalize_L2(@)]]

\* add_documents.  embeddings: its shape, (n,) or (n, width), and the names of its
\* rows; documents: the names of the metadata records.
add_documents_fn(st, embeddings, documents) ==
    IF CountMismatch(embeddings, documents)
    THEN [st |-> st, err |-> "ValueError: count mismatch"]
    ELSE IF IsEmptyBatch(embeddings)
    THEN [st |-> st, err |-> "none"]
    ELSE IF Len(embeddings.shape) < 2
    THEN [st |-> st, err |-> "IndexError"]
    ELSE LET dim == embeddings.shape[2]
             created == st.index = None
             st1 == IF created THEN create_index(st, dim) ELSE st
         IN  IF ~created /\ DimensionMismatch(st, dim)
             THEN [st |-> st, err |-> "ValueError: dimension mismatch"]
             ELSE LET ix == TheValue(st1.index)
                  IN  IF ix.d # dim
                      THEN [st |-> st1, err |-> "AssertionError"]
                      ELSE [st |-> [st1 EXCEPT
                                      !.index = Some([ix EXCEPT !.vecs = ix.vecs \o normalized(embeddings.rows)]),
                                      !.metadata = st1.metadata \o documents],
                            err |-> "none"]

\* Where a write of save_index can fail.
SaveFaults == {"none", "index_not_written", "index_truncated",
               "metadata_not_opened", "metadata_truncated"}

save_index_fn_Swallow(st, fault) ==
    IF st.index = None \/ fault = "index_not_written" THEN [st |-> st, err |-> "none"]
    ELSE IF fault = "index_truncated"
    THEN [st |-> [st EXCEPT !.index_file = Some(Truncated)], err |-> "none"]
    ELSE [st |-> [st EXCEPT !.index_file = Some(IndexFileOf(TheValue(st.index))),
                            !.metadata_file =
                                IF fault = "metadata_not_opened" THEN st.metadata_file
                                ELSE IF fault = "metadata_truncated" THEN Some(Truncated)
                                ELSE Some(MetadataFileOf(st.metadata))],
          err |-> "none"]

\* save_index: the exception is logged and raised again.
save_index_fn(st, fault) ==
    IF st.index = None THEN [st |-> st, err |-> "none"]
    ELSE IF fault = "index_not_written" THEN [st |-> st, err |-> "IOError"]
    ELSE IF fault = "index_truncated"
    THEN [st |-> [st EXCEPT !.index_file = Some(Truncated)], err |-> "IOError"]
    ELSE LET st1 == [st EXCEPT !.index_file = Some(IndexFileOf(TheValue(st.index)))]
         IN  IF fault = "metadata_not_opened" THEN [st |-> st1, err |-> "IOError"]
             ELSE IF fault = "metadata_truncated"
             THEN [st |-> [st1 EXCEPT !.metadata_file = Some(Truncated)], err |-> "IOError"]
             ELSE [st |-> [st1 EXCEPT !.metadata_file = Some(MetadataFileOf(st.metadata))],
                   err |-> "none"]

clear_fn_KeepFiles(st) == EmptyFields(st)

\* clear
clear_fn(st) ==
    [index |-> None, metadata |-> <<>>, dimension |-> None,
     index_file |-> None, metadata_file |-> None]

\* A new store on an empty directory; the embedding generator is a local-only one
\* and is not used.
StoreInit ==
    /\ api_key = FALSE
    /\ numpy_ragged_raises = FALSE
    /\ use_gemini = FALSE
    /\ gemini_client = FALSE
    /\ gemini_quota_exceeded = FALSE
    /\ emb_pre = Flags @@ [tripped |-> FALSE]
    /\ emb_op = "init"
    /\ emb_texts = <<>>
    /\ emb_calls = <<>>
    /\ emb_result = NoResult
    /\ emb_tripped = FALSE
    /\ index = None
    /\ metadata = <<>>
    /\ dimension = None
    /\ index_file = None
    /\ metadata_file = None
    /\ next_id = 1
    /\ vs_op = "init"
    /\ vs_args = NoArgs
    /\ vs_pre = [index |-> None, metadata |-> <<>>, dimension |-> None]
    /\ vs_err = "none"
    /\ vs_result = <<>>
    /\ vs_prev = NoCall
    /\ chunk_size = settings_chunk_size
    /\ chunk_overlap = settings_chunk_overlap
    /\ min_chunk_size = settings_min_chunk_size
    /\ ck_op = "init"
    /\ document = NoDocument
    /\ chunks = <<>>
    /\ rag_agent = None
    /\ faiss_index_path = EmptyPath
    /\ svc_op = "init"
    /\ svc_request = NoRequest
    /\ svc_response = NoResponse
    /\ all_chunks = <<>>

SetStore(st) ==
    /\ index' = st.index
    /\ metadata' = st.metadata
    /\ dimension' = st.dimension
    /\ index_file' = st.index_file
    /\ metadata_file' = st.metadata_file

Observe(op, args, err) ==
    /\ vs_op' = op
    /\ vs_args' = args
    /\ vs_pre' = InMemory(Store)
    /\ vs_err' = err
    /\ vs_prev' = IF op = "idle" THEN NoCall ELSE [op |-> vs_op, err |-> vs_err]

\* The calls that return nothing.
Call(op, args, err) == Observe(op, args, err) /\ vs_result' = <<>>

Idle == vs_op = "idle"

\* The caller makes the next call, at once when the last call was one of ops.
Ready(ops) == Idle \/ vs_op \in ops

\* The caller has the outcome of the last call and goes on.
vs_return ==
    /\ vs_op # "idle"
    /\ Call("idle", NoArgs, "none")
    /\ UNCHANGED <<index, metadata, dimension, index_file, metadata_file, next_id>>
    /\ UNCHANGED <<embVars, chunkVars, svcVars>>

\* FAISSVectorStore(index_path): a new instance on the same directory.
FAISSVectorStore_init ==
    /\ Ready({"save_index", "clear"})
    /\ SetStore(load_index_fn(EmptyFields(Store)))
    /\ Call("__init__", NoArgs, "none")
    /\ UNCHANGED next_id
    /\ UNCHANGED <<embVars, chunkVars, svcVars>>

load_index ==
    /\ Idle
    /\ SetStore(load_index_fn(Store))
    /\ Call("_load_index", NoArgs, "none")
    /\ UNCHANGED next_id
    /\ UNCHANGED <<embVars, chunkVars, svcVars>>

Names(n) == [k \in 1..n |-> next_id + k - 1]
Vectors(n) == [k \in 1..n |-> [id |-> next_id + k - 1, v |-> Raw(next_id + k - 1)]]

add_documents ==
    /\ Idle
    /\ \E n \in 0..MaxRows, m \in 0..MaxRows :
       \E shape \in {<<n>>} \cup {<<n, w>> : w \in Dims} :
          /\ next_id + n - 1 <= MaxEntries
          /\ LET r == add_documents_fn(Store, [shape |-> shape, rows |-> Vectors(n)], Names(m))
             IN  /\ SetStore(r.st)
                 /\ Call("add_documents", [NoArgs EXCEPT !.shape = shape, !.documents = m], r.err)
                 /\ next_id' = IF r.err = "none" THEN next_id + n ELSE next_id
    /\ UNCHANGED <<embVars, chunkVars, svcVars>>

save_index ==
    /\ Idle
    /\ \E fault \in SaveFaults :
          LET r == save_index_fn(Store, fault)
          IN  /\ (Store.index = None => fault = "none")
              /\ SetStore(r.st)
              /\ Call("save_index", [NoArgs EXCEPT !.fault = fault], r.err)
    /\ UNCHANGED next_id
    /\ UNCHANGED <<embVars, chunkVars, svcVars>>

clear ==
    /\ Ready({"clear"})
    /\ SetStore(clear_fn(Store))
    /\ Call("clear", NoArgs, "none")
    /\ next_id' = 1
    /\ UNCHANGED <<embVars, chunkVars, svcVars>>

TopKs == {None} \cup {Some(k) : k \in 1..MaxK}

search ==
    /\ Idle
    /\ \E v \in Queries, width \in Dims, top_k \in TopKs :
          LET query == [v |-> v, width |-> width]
              r == search_fn(Store, query, top_k)
          IN  /\ Observe("search", [NoArgs EXCEPT !.query = query, !.top_k = top_k], r.err)
              /\ vs_result' = r.hits
    /\ UNCHANGED <<index, metadata, dimension, index_file, metadata_file, next_id>>
    /\ UNCHANGED <<embVars, chunkVars, svcVars>>

stats ==
    /\ Idle
    /\ Observe("get_stats", NoArgs, "none")
    /\ vs_result' = get_stats(Store)
    /\ UNCHANGED <<index, metadata, dimension, index_file, metadata_file, next_id>>
    /\ UNCHANGED <<embVars, chunkVars, svcVars>>

StoreNext ==
    \/ vs_return
    \/ search
    \/ stats
    \/ FAISSVectorStore_init
    \/ load_index
    \/ add_documents
    \/ save_index
    \/ clear

SpecStore == StoreInit /\ [][StoreNext]_vars


-----------------------------------------------------------------------------
(* TextChunker *)

\* The token counts of the sentences of the model.  For the settings' values: one
\* that fits in chunk_overlap, one below min_chunk_size, one between min_chunk_size
\* and chunk_size, one above chunk_size.
TokenSizes == {40, 80, 300, 600}

\* What separates a sentence from the next: white space, a blank line, or the end
\* of the section.
Breaks == {"sentence", "paragraph", "section"}

\* A document is its sentences in order, each given by its token count, and the
\* separators between them.  A document without sections is its plain text.
SectionedDocuments ==
    UNION {{[sectioned |-> TRUE, pieces |-> ps, breaks |-> bs] :
                ps \in [1..n -> TokenSizes], bs \in [1..(n - 1) -> Breaks]} :
           n \in 1..MaxPieces}
PlainDocuments ==
    UNION {{[sectioned |-> FALSE, pieces |-> ps, breaks |-> [k \in 1..(n - 1) |-> "sentence"]] :
                ps \in [1..n -> TokenSizes]} :
           n \in 0..MaxPieces}
Documents == SectionedDocuments \cup PlainDocuments

\* count_tokens of the text made of the sentences ids of doc: the tokenizer's count
\* of a text is the sum of the counts of its sentences.
RECURSIVE count_tokens(_, _)
count_tokens(doc, ids) ==
    IF ids = <<>> THEN 0 ELSE doc.pieces[Head(ids)] + count_tokens(doc, Tail(ids))

\* The sentences from..to of doc, cut after each separator in cuts.
RECURSIVE Segments(_, _, _, _)
Segments(doc, from, to, cuts) ==
    IF from > to THEN <<>>
    ELSE LET ends == {e \in from..to : e = to \/ doc.breaks[e] \in cuts}
             end == CHOOSE e \in ends : \A f \in ends : e <= f
         IN  <<[k \in 1..(end - from + 1) |-> from + k - 1]>> \o Segments(doc, end + 1, to, cuts)

\* document['sections']: the content of each, as the ids of its sentences.
Sections(doc) == Segments(doc, 1, Len(doc.pieces), {"section"})
\* content.split('\n\n')
Paragraphs(doc, content) ==
    Segments(doc, content[1], content[Len(content)], {"paragraph", "section"})

\* x or default
PyOr(arg, default) == IF arg = None \/ arg = Some(0) THEN default ELSE TheValue(arg)

\* TextChunker.__init__
TextChunker_init(chunk_size_arg, chunk_overlap_arg, min_chunk_size_arg) ==
    [chunk_size |-> PyOr(chunk_size_arg, settings_chunk_size),
     chunk_overlap |-> PyOr(chunk_overlap_arg, settings_chunk_overlap),
     min_chunk_size |-> PyOr(min_chunk_size_arg, settings_min_chunk_size)]

Chunk(text, heading, chunk_type, tokens) ==
    [text |-> text, heading |-> heading, chunk_type |-> chunk_type, tokens |-> tokens]

NoBuffer == [chunks |-> <<>>, current_chunk |-> <<>>, current_tokens |-> 0,
             current_heading |-> None]

MeetsMin_Always(tokens) == TRUE

\* current_tokens >= self.min_chunk_size
MeetsMin(tokens) == tokens >= min_chunk_size

Flush_Always(acc, heading, chunk_type) ==
    IF acc.current_chunk # <<>>
    THEN Append(acc.chunks, Chunk(acc.current_chunk, heading, chunk_type, acc.current_tokens))
    ELSE acc.chunks

\* if current_chunk and current_tokens >= self.min_chunk_size: chunks.append(...)
Flush(acc, heading, chunk_type) ==
    IF acc.current_chunk # <<>> /\ MeetsMin(acc.current_tokens)
    THEN Append(acc.chunks, Chunk(acc.current_chunk, heading, chunk_type, acc.current_tokens))
    ELSE acc.chunks

\* _split_large_section, the loop over the sentences of a paragraph above
\* chunk_size; it starts from the buffer the paragraph loop has.
RECURSIVE SentenceLoop(_, _, _, _)
SentenceLoop(doc, sentences, heading, acc) ==
    IF sentences = <<>> THEN acc
    ELSE LET sentence == <<Head(sentences)>>
             sent_tokens == count_tokens(doc, sentence)
             next == IF acc.current_tokens + sent_tokens <= chunk_size
                     THEN [acc EXCEPT !.current_chunk = @ \o sentence,
                                      !.current_tokens = @ + sent_tokens]
                     ELSE [acc EXCEPT !.chunks = Flush(acc, heading, "sentence"),
                                      !.current_chunk = sentence,
                                      !.current_tokens = sent_tokens]
         IN  SentenceLoop(doc, Tail(sentences), heading, next)

\* _split_large_section, the loop over the paragraphs
RECURSIVE ParagraphLoop(_, _, _, _)
ParagraphLoop(doc, paragraphs, heading, acc) ==
    IF paragraphs = <<>> THEN acc
    ELSE LET para == Head(paragraphs)
             para_tokens == count_tokens(doc, para)
             saved == [acc EXCEPT !.chunks = Flush(acc, heading, "paragraph")]
             next == IF acc.current_tokens + para_tokens <= chunk_size
                     THEN [acc EXCEPT !.current_chunk = @ \o para,
                                      !.current_tokens = @ + para_tokens]
                     ELSE IF para_tokens > chunk_size
                     THEN SentenceLoop(doc, para, heading, saved)
                     ELSE [saved EXCEPT !.current_chunk = para,
                                        !.current_tokens = para_tokens]
         IN  ParagraphLoop(doc, Tail(paragraphs), heading, next)

split_large_section_NoHeading(doc, content, heading) ==
    Flush(ParagraphLoop(doc, Paragraphs(doc, content), None, NoBuffer), None, "paragraph")

\* _split_large_section
split_large_section(doc, content, heading) ==
    Flush(ParagraphLoop(doc, Paragraphs(doc, content), heading, NoBuffer),
          heading, "paragraph")

\* split_by_sections, the loop; the heading of section k is k.
RECURSIVE SectionLoop(_, _, _, _)
SectionLoop(doc, sections, k, acc) ==
    IF k > Len(sections) THEN acc
    ELSE LET heading == Some(k)
             content == sections[k]
             section_tokens == count_tokens(doc, content)
             saved == Flush(acc, acc.current_heading, "section")
             next == IF acc.current_tokens + section_tokens <= chunk_size
                     THEN [acc EXCEPT !.current_heading = IF @ = None THEN heading ELSE @,
                                      !.current_chunk = @ \o content,
                                      !.current_tokens = @ + section_tokens]
                     ELSE IF section_tokens > chunk_size
                     THEN [NoBuffer EXCEPT
                               !.chunks = saved \o split_large_section(doc, content, heading)]
                     ELSE [chunks |-> saved, current_chunk |-> content,
                           current_tokens |-> section_tokens, current_heading |-> heading]
         IN  SectionLoop(doc, sections, k + 1, next)

split_by_sections(doc) ==
    LET acc == SectionLoop(doc, Sections(doc), 1, NoBuffer)
    IN  Flush(acc, acc.current_heading, "section")

\* split_by_size: if self.count_tokens(chunk_text) >= self.min_chunk_size
FlushSize(doc, acc) ==
    IF MeetsMin(count_tokens(doc, acc.current_chunk))
    THEN Append(acc.chunks, Chunk(acc.current_chunk, None, "fixed_size",
                                  count_tokens(doc, acc.current_chunk)))
    ELSE acc.chunks

\* The first of the sentences kept as overlap: from the end of the chunk backwards
\* while they fit in chunk_overlap.
RECURSIVE OverlapStart(_, _, _, _)
OverlapStart(doc, chunk, i, overlap_tokens) ==
    IF i = 0 THEN 1
    ELSE IF overlap_tokens + count_tokens(doc, <<chunk[i]>>) <= chunk_overlap
    THEN OverlapStart(doc, chunk, i - 1, overlap_tokens + count_tokens(doc, <<chunk[i]>>))
    ELSE i + 1

overlap_sentences(doc, chunk) ==
    SubSeq(chunk, OverlapStart(doc, chunk, Len(chunk), 0), Len(chunk))

RECURSIVE SizeLoop(_, _, _)
SizeLoop(doc, sentences, acc) ==
    IF sentences = <<>> THEN acc
    ELSE LET sentence == <<Head(sentences)>>
             sent_tokens == count_tokens(doc, sentence)
             overlap == overlap_sentences(doc, acc.current_chunk)
             next == IF acc.current_tokens + sent_tokens > chunk_size
                        /\ acc.current_chunk # <<>>
                     THEN [acc EXCEPT !.chunks = FlushSize(doc, acc),
                                      !.current_chunk = overlap \o sentence,
                                      !.current_tokens = count_tokens(doc, overlap) + sent_tokens]
                     ELSE [acc EXCEPT !.current_chunk = @ \o sentence,
                                      !.current_tokens = @ + sent_tokens]
         IN  SizeLoop(doc, Tail(sentences), next)

split_by_size(doc) ==
    IF doc.pieces = <<>> THEN <<>>
    ELSE LET acc == SizeLoop(doc, [k \in 1..Len(doc.pieces) |-> k], NoBuffer)
         IN  IF acc.current_chunk # <<>> THEN FlushSize(doc, acc) ELSE acc.chunks

chunk_document_fn(doc) ==
    IF doc.sectioned THEN split_by_sections(doc) ELSE split_by_size(doc)

\* The arguments of TextChunker(...) in the model.
ChunkSizeArgs == {None, Some(300)}
ChunkOverlapArgs == {None, Some(0)}
MinChunkSizeArgs == {None, Some(40)}

\* A new TextChunker and a document to chunk; the other components are not used.
ChunkInit ==
    /\ api_key = FALSE
    /\ numpy_ragged_raises = FALSE
    /\ use_gemini = FALSE
    /\ gemini_client = FALSE
    /\ gemini_quota_exceeded = FALSE
    /\ emb_pre = Flags @@ [tripped |-> FALSE]
    /\ emb_op = "init"
    /\ emb_texts = <<>>
    /\ emb_calls = <<>>
    /\ emb_result = NoResult
    /\ emb_tripped = FALSE
    /\ index = None
    /\ metadata = <<>>
    /\ dimension = None
    /\ index_file = None
    /\ metadata_file = None
    /\ next_id = 1
    /\ vs_op = "init"
    /\ vs_args = NoArgs
    /\ vs_pre = [index |-> None, metadata |-> <<>>, dimension |-> None]
    /\ vs_err = "none"
    /\ vs_result = <<>>
    /\ vs_prev = NoCall
    /\ \E a \in ChunkSizeArgs, b \in ChunkOverlapArgs, c \in MinChunkSizeArgs :
          LET o == TextChunker_init(a, b, c)
          IN  /\ chunk_size = o.chunk_size
              /\ chunk_overlap = o.chunk_overlap
              /\ min_chunk_size = o.min_chunk_size
    /\ ck_op = "init"
    /\ document \in Documents
    /\ chunks = <<>>
    /\ rag_agent = None
    /\ faiss_index_path = EmptyPath
    /\ svc_op = "init"
    /\ svc_request = NoRequest
    /\ svc_response = NoResponse
    /\ all_chunks = <<>>

chunk_document ==
    /\ ck_op = "init"
    /\ chunks' = chunk_document_fn(document)
    /\ ck_op' = "chunk_document"
    /\ UNCHANGED <<chunk_size, chunk_overlap, min_chunk_size, document>>
    /\ UNCHANGED <<embVars, storeVars, svcVars>>

ChunkNext == chunk_document

SpecChunk == ChunkInit /\ [][ChunkNext]_vars

-----------------------------------------------------------------------------
(* The service: RAGAgent, build_index and the API routes *)

\* Chunks of one build, and the entries a directory holds at most in the model.
MaxChunks == 2
MaxIndexed == 3

PathOf(st) == [index_file |-> st.index_file, metadata_file |-> st.metadata_file]

\* A vector store object together with the directory it reads and writes.
OnPath(fields, path) ==
    [index |-> fields.index, metadata |-> fields.metadata, dimension |-> fields.dimension,
     index_file |-> path.index_file, metadata_file |-> path.metadata_file]

\* FAISSVectorStore(): empty fields, then _load_index.
FAISSVectorStore_new(path) ==
    load_index_fn(OnPath([index |-> None, metadata |-> <<>>, dimension |-> None], path))

\* RAGAgent(): raises ValueError without an API key, and then there is no agent.
RAGAgent_init(path, key) ==
    IF ~key THEN None
    ELSE Some([vector_store |-> InMemory(FAISSVectorStore_new(path))])

\* RAGAgent.is_ready
is_ready(agent) == get_stats(agent.vector_store).num_documents > 0

\* RAGAgent.retrieve_context: top_k or settings.top_k, the query's embedding, search.
retrieve_context(agent, query, top_k) ==
    search_fn(agent.vector_store, query, Some(EffectiveK(top_k)))

\* RAGAgent.generate_response: one call of the generation model; its exception is
\* raised again.
generate_response(context_chunks, llm_ok) ==
    IF llm_ok
    THEN [NoResponse EXCEPT !.answer = "generated", !.sources = context_chunks,
                            !.num_sources = Len(context_chunks), !.llm_calls = 1]
    ELSE [NoResponse EXCEPT !.raised = "Exception", !.llm_calls = 1]

NoContext_Never(context_chunks) == FALSE

\* not context_chunks
NoContext(context_chunks) == Len(context_chunks) = 0

\* RAGAgent.query
query_fn(agent, query, top_k, llm_ok) ==
    LET r == retrieve_context(agent, query, top_k)
    IN  IF r.err # "none" THEN [NoResponse EXCEPT !.raised = r.err]
        ELSE IF NoContext(r.hits)
        THEN [NoResponse EXCEPT !.answer = "no relevant information"]
        ELSE generate_response(r.hits, llm_ok)

\* The chunks of a build and their embeddings: chunk k has the vector named k.
ChunksOf(n) == [k \in 1..n |-> k]
EmbeddingsOf(n) == [k \in 1..n |-> [id |-> k, v |-> Raw(k)]]

\* What embed_batch returns for n texts: an (n, width) array, or for two or more
\* texts of mixed widths an object array of shape (n,).
BatchShapes(n) == {<<n, w>> : w \in Dims} \cup (IF n >= 2 THEN {<<n>>} ELSE {})

\* build_index.  pages: the processed pages; n: the chunks; shape: what embed_batch
\* made of them; fault: where save_index fails.
build_index_fn(path, pages, n, shape, ragged_raises, fault) ==
    IF pages = 0 \/ n = 0
    THEN [path |-> path, raised |-> "none", num_documents |-> 0]
    ELSE IF Len(shape) < 2 /\ ragged_raises
    THEN [path |-> path, raised |-> "ValueError", num_documents |-> 0]
    ELSE LET vector_store == FAISSVectorStore_new(path)
             a == add_documents_fn(vector_store,
                                   [shape |-> shape, rows |-> EmbeddingsOf(n)], ChunksOf(n))
         IN  IF a.err # "none"
             THEN [path |-> path, raised |-> a.err, num_documents |-> 0]
             ELSE LET s == save_index_fn(a.st, fault)
                  IN  [path |-> PathOf(s.st), raised |-> s.err,
                       num_documents |-> IF s.err = "none"
                                         THEN get_stats(s.st).num_documents ELSE 0]

\* QueryResponse(**response): each source's similarity must lie in 0..1.
ValidQueryResponse(response) ==
    \A j \in DOMAIN response.sources :
        0 <= response.sources[j].similarity /\ response.sources[j].similarity <= One

\* The entries a directory holds.
Entries(file) == IF file = None THEN 0
                 ELSE IF Len(TheValue(file).vecs) >= Len(TheValue(file).docs)
                 THEN Len(TheValue(file).vecs) ELSE Len(TheValue(file).docs)
PathEntries(path) ==
    IF Entries(path.index_file) >= Entries(path.metadata_file)
    THEN Entries(path.index_file) ELSE Entries(path.metadata_file)

\* The service started on an empty directory: lifespan has made the agent, or has
\* logged the exception of RAGAgent().
SvcInit ==
    /\ api_key \in BOOLEAN
    /\ numpy_ragged_raises \in BOOLEAN
    /\ use_gemini = FALSE
    /\ gemini_client = FALSE
    /\ gemini_quota_exceeded = FALSE
    /\ emb_pre = Flags @@ [tripped |-> FALSE]
    /\ emb_op = "init"
    /\ emb_texts = <<>>
    /\ emb_calls = <<>>
    /\ emb_result = NoResult
    /\ emb_tripped = FALSE
    /\ index = None
    /\ metadata = <<>>
    /\ dimension = None
    /\ index_file = None
    /\ metadata_file = None
    /\ next_id = 1
    /\ vs_op = "init"
    /\ vs_args = NoArgs
    /\ vs_pre = [index |-> None, metadata |-> <<>>, dimension |-> None]
    /\ vs_err = "none"
    /\ vs_result = <<>>
    /\ vs_prev = NoCall
    /\ chunk_size = settings_chunk_size
    /\ chunk_overlap = settings_chunk_overlap
    /\ min_chunk_size = settings_min_chunk_size
    /\ ck_op = "init"
    /\ document = NoDocument
    /\ chunks = <<>>
    /\ rag_agent = RAGAgent_init(EmptyPath, api_key)
    /\ faiss_index_path = EmptyPath
    /\ svc_op = "lifespan"
    /\ svc_request = NoRequest
    /\ svc_response = NoResponse
    /\ all_chunks = <<>>

\* The request is answered and the next one comes.
svc_return ==
    /\ svc_op # "idle"
    /\ svc_op' = "idle"
    /\ svc_request' = NoRequest
    /\ svc_response' = NoResponse
    /\ all_chunks' = <<>>
    /\ UNCHANGED <<rag_agent, faiss_index_path>>
    /\ UNCHANGED <<embVars, storeVars, chunkVars>>

\* The queries of the service: along the first chunk's vector, and against it.
RequestQueries == { <<3, 4>>, <<-6, -8>> }

\* top_k of a QueryRequest: absent, or an integer from 1 to 20.
RequestTopKs == {None, Some(1)}

\* The process is started again: lifespan makes a new agent from the directory.
lifespan ==
    /\ svc_op = "idle"
    /\ rag_agent' = RAGAgent_init(faiss_index_path, api_key)
    /\ svc_op' = "lifespan"
    /\ svc_request' = NoRequest
    /\ svc_response' = NoResponse
    /\ UNCHANGED <<faiss_index_path, all_chunks>>
    /\ UNCHANGED <<embVars, storeVars, chunkVars>>

\* GET /api/health
health_check ==
    /\ svc_op = "idle"
    /\ svc_op' = "health_check"
    /\ svc_request' = NoRequest
    /\ svc_response' =
          IF rag_agent = None
          THEN [NoResponse EXCEPT !.status_code = Some(200), !.status = "error"]
          ELSE IF is_ready(TheValue(rag_agent))
          THEN [NoResponse EXCEPT !.status_code = Some(200), !.status = "healthy",
                   !.num_documents =
                       Some(get_stats(TheValue(rag_agent).vector_store).num_documents)]
          ELSE [NoResponse EXCEPT !.status_code = Some(200), !.status = "not_ready"]
    /\ UNCHANGED <<rag_agent, faiss_index_path, all_chunks>>
    /\ UNCHANGED <<embVars, storeVars, chunkVars>>

\* POST /api/query: routes.query
api_query ==
    /\ svc_op = "idle"
    /\ \E v \in RequestQueries, width \in Dims, top_k \in RequestTopKs, llm_ok \in BOOLEAN :
          LET request == [query |-> [v |-> v, width |-> width], top_k |-> top_k]
          IN  /\ svc_request' = request
              /\ svc_response' =
                    IF rag_agent = None \/ ~is_ready(TheValue(rag_agent))
                    THEN [NoResponse EXCEPT !.status_code = Some(503)]
                    ELSE LET r == query_fn(TheValue(rag_agent), request.query, top_k, llm_ok)
                         IN  IF r.raised # "none" \/ ~ValidQueryResponse(r)
                             THEN [NoResponse EXCEPT !.status_code = Some(500),
                                                     !.llm_calls = r.llm_calls]
                             ELSE [r EXCEPT !.status_code = Some(200)]
    /\ svc_op' = "api_query"
    /\ UNCHANGED <<rag_agent, faiss_index_path, all_chunks>>
    /\ UNCHANGED <<embVars, storeVars, chunkVars>>

\* Where save_index fails in a build: nowhere, or between its two writes.
BuildFaults == {"none", "metadata_not_opened"}

\* POST /api/rebuild-index
rebuild_index ==
    /\ svc_op = "idle"
    /\ \E pages \in 0..1, n \in 0..MaxChunks, fault \in BuildFaults :
       \E shape \in BatchShapes(n) :
          LET r == build_index_fn(faiss_index_path, pages, n, shape,
                                  numpy_ragged_raises, fault)
          IN  /\ PathEntries(faiss_index_path) + n <= MaxIndexed
              /\ faiss_index_path' = r.path
              /\ all_chunks' = IF pages = 0 THEN <<>> ELSE ChunksOf(n)
              /\ svc_response' =
                    IF r.raised # "none"
                    THEN [NoResponse EXCEPT !.status_code = Some(500)]
                    ELSE [NoResponse EXCEPT !.status_code = Some(200), !.status = "success",
                                            !.num_documents = Some(r.num_documents)]
    /\ svc_op' = "rebuild_index"
    /\ svc_request' = NoRequest
    /\ UNCHANGED rag_agent
    /\ UNCHANGED <<embVars, storeVars, chunkVars>>

\* agent.query(...) called on the agent itself, not through the route.
RAGAgent_query ==
    /\ svc_op = "idle"
    /\ rag_agent # None
    /\ \E v \in RequestQueries, width \in Dims, top_k \in RequestTopKs, llm_ok \in BOOLEAN :
          LET request == [query |-> [v |-> v, width |-> width], top_k |-> top_k]
          IN  /\ svc_request' = request
              /\ svc_response' = query_fn(TheValue(rag_agent), request.query, top_k, llm_ok)
    /\ svc_op' = "RAGAgent.query"
    /\ UNCHANGED <<rag_agent, faiss_index_path, all_chunks>>
    /\ UNCHANGED <<embVars, storeVars, chunkVars>>

SvcNext ==
    \/ svc_return
    \/ lifespan
    \/ health_check
    \/ api_query
    \/ rebuild_index
    \/ RAGAgent_query

SpecService == SvcInit /\ [][SvcNext]_vars

\* Health requests keep coming and the server answers each request; nothing in
\* the code starts the process again or rebuilds the index by itself.
SpecServiceLive == SpecService /\ WF_vars(svc_return) /\ WF_vars(health_check)

-----------------------------------------------------------------------------
(* Properties of EmbeddingGenerator *)

EmbCalled == emb_op \in {"embed_text", "embed_batch"}

\* DEGRADED_LOCAL: the instance does not attempt the remote provider.
Degraded(f) == ~(f.use_gemini /\ f.gemini_client)

PreFlags == [use_gemini |-> emb_pre.use_gemini, gemini_client |-> emb_pre.gemini_client,
             gemini_quota_exceeded |-> emb_pre.gemini_quota_exceeded]

RemoteCalls == {c \in DOMAIN emb_calls : emb_calls[c].provider = "gemini"}

\* The remote request made for item j of the last call, if any.
RemoteCallFor(j) ==
    IF j \in DOMAIN emb_texts
    THEN {c \in RemoteCalls : emb_calls[c].texts = <<emb_texts[j]>>}
    ELSE {}
RemoteOutcome(j) == emb_calls[TheValue(RemoteCallFor(j))].outcome
NonQuotaFailures == RemoteOutcomes \ {"ok", "quota"}
FailedNonQuota(j) ==
    RemoteCallFor(j) # {} /\ RemoteOutcome(j) \in NonQuotaFailures
FailedQuota(j) == RemoteCallFor(j) # {} /\ RemoteOutcome(j) = "quota"
Items == 1..Len(emb_texts)
Returned == emb_result.raised = "none"
\* The vectors the call built, one per text and in the order of the texts.
OneVectorPerText ==
    /\ Len(emb_result.vectors) = Len(emb_texts)
    /\ \A j \in Items : emb_result.vectors[j].text = emb_texts[j]
LocalFrom(j) ==
    \A k \in j..Len(emb_texts) :
        /\ RemoteCallFor(k) = {} \/ k = j
        /\ Returned => emb_result.vectors[k].provider = "local"
\* The items after j went to the local provider in one batched call, the last call.
RestInOneLocalBatch(j) ==
    j < Len(emb_texts) =>
        /\ emb_calls[Len(emb_calls)] =
               FallbackBatchCall(SubSeq(emb_texts, j + 1, Len(emb_texts)))
        /\ \A c \in DOMAIN emb_calls :
               emb_calls[c].batched => c = Len(emb_calls)
\* Item j is the third of three consecutive non-quota remote failures.
ThirdFailure(j) ==
    /\ j >= max_failures
    /\ \A k \in (j - max_failures + 1)..j : FailedNonQuota(k)

\* C1: once an instance is in DEGRADED_LOCAL (from construction or after a quota or
\* rate-limit failure), no later embed_text or embed_batch call makes a remote call,
\* and the instance stays degraded.
C1_DegradedNeverCallsRemote ==
    (EmbCalled /\ (Degraded(PreFlags) \/ emb_pre.gemini_quota_exceeded)) =>
        /\ RemoteCalls = {}
        /\ Degraded(Flags)
        /\ emb_pre.gemini_quota_exceeded => gemini_quota_exceeded

C1_Witness ==
    /\ emb_op = "embed_batch"
    /\ emb_pre.gemini_quota_exceeded
    /\ Len(emb_texts) >= 2
    /\ RemoteCalls = {}
    /\ Len(emb_calls) = 1

\* C2 as claimed: after three consecutive non-quota failures in one embed_batch the
\* rest of the batch goes to the local provider in one batched call, and every later
\* call uses only the local provider.
C2_SwitchIsPermanent ==
    /\ (emb_op = "embed_batch" /\ ~Degraded(PreFlags)) =>
           \A j \in Items : ThirdFailure(j) => (LocalFrom(j) /\ RestInOneLocalBatch(j))
    /\ (EmbCalled /\ emb_pre.tripped) => RemoteCalls = {}

\* C2 amended: after three consecutive non-quota failures in one embed_batch the rest
\* of that batch goes to the local provider in one batched call, but no flag changes:
\* the instance stays in PREFER_REMOTE and the next call that embeds a text starts
\* with a remote request again (unless a quota failure has degraded it meanwhile).
C2_SwitchForThisBatchOnly ==
    /\ (emb_op = "embed_batch" /\ ~Degraded(PreFlags)) =>
           \A j \in Items : ThirdFailure(j) =>
               /\ LocalFrom(j)
               /\ RestInOneLocalBatch(j)
               /\ Flags = PreFlags
               /\ emb_tripped
    /\ (EmbCalled /\ emb_pre.tripped /\ ~Degraded(PreFlags) /\ emb_texts # <<>>) =>
           emb_calls[1].provider = "gemini"

C2_Witness ==
    /\ emb_op = "embed_batch"
    /\ emb_pre.tripped
    /\ ~Degraded(PreFlags)
    /\ ThirdFailure(max_failures)
    /\ Len(emb_texts) > max_failures + 1
    /\ ~Degraded(Flags)

\* C3: in PREFER_REMOTE the first quota or rate-limit failure degrades the instance at
\* once: the failing item and every remaining item of the batch are embedded locally,
\* no further remote request is made in that call, nor in any later call.
C3_QuotaDegradesAtOnce ==
    /\ (EmbCalled /\ ~Degraded(PreFlags)) =>
           \A j \in Items : FailedQuota(j) =>
               /\ LocalFrom(j)
               /\ \A c \in RemoteCalls : c <= TheValue(RemoteCallFor(j))
               /\ gemini_quota_exceeded
               /\ Degraded(Flags)
               /\ emb_op = "embed_batch" => RestInOneLocalBatch(j)
    /\ (EmbCalled /\ emb_pre.gemini_quota_exceeded) => RemoteCalls = {}
    /\ gemini_quota_exceeded => Degraded(Flags)

C3_Witness ==
    /\ emb_op = "embed_batch"
    /\ ~Degraded(PreFlags)
    /\ Len(emb_texts) >= 4
    /\ FailedQuota(2)
    /\ RemoteCallFor(1) # {} /\ RemoteOutcome(1) = "ok"
    /\ Returned => emb_result.vectors[3].provider = "local"

\* The value of consecutive_failures after item j, as the claim describes it.
RECURSIVE ExpectedCount(_)
ExpectedCount(j) ==
    IF j = 0 THEN 0
    ELSE IF FailedNonQuota(j) \/ FailedQuota(j) THEN ExpectedCount(j - 1) + 1
    ELSE 0

\* C4: below the threshold a non-quota remote failure in embed_batch sends only that
\* item to the local provider: the instance stays in PREFER_REMOTE, the next item is
\* attempted remotely, the counter grows by one per consecutive failure and returns
\* to zero on a remote success, so failures separated by a success do not add up.
C4_SingleItemFallback ==
    (emb_op = "embed_batch" /\ ~Degraded(PreFlags)) =>
        /\ \A j \in DOMAIN emb_result.counts :
               /\ RemoteCallFor(j) # {}
               /\ emb_result.counts[j] = ExpectedCount(j)
               /\ FailedNonQuota(j) =>
                      /\ Returned => emb_result.vectors[j].provider = "local"
                      /\ \E c \in DOMAIN emb_calls : emb_calls[c] = FallbackCall(emb_texts[j])
                      /\ (emb_result.counts[j] < max_failures /\ j < Len(emb_texts)) =>
                             RemoteCallFor(j + 1) # {}
        /\ (\A j \in Items : ~ThirdFailure(j) /\ ~FailedQuota(j)) =>
               /\ \A j \in Items : RemoteCallFor(j) # {}
               /\ \A c \in DOMAIN emb_calls : ~emb_calls[c].batched
               /\ Flags = PreFlags
               /\ ~Degraded(Flags)

C4_Witness ==
    /\ emb_op = "embed_batch"
    /\ Len(emb_texts) = 5
    /\ FailedNonQuota(1) /\ FailedNonQuota(2)
    /\ RemoteCallFor(3) # {} /\ RemoteOutcome(3) = "ok"
    /\ FailedNonQuota(4)
    /\ RemoteCallFor(5) # {}
    /\ emb_result.counts = <<1, 2, 0, 1, 0>>
    /\ ~Degraded(Flags)

\* C5: for every list of texts and every pattern of remote outcomes embed_batch
\* returns exactly len(texts) vectors, the i-th being the embedding of the i-th text.
C5_BatchReturnsOneVectorPerText ==
    emb_op = "embed_batch" => (Returned /\ OneVectorPerText)

\* C6: an instance constructed without a remote credential starts in DEGRADED_LOCAL,
\* never makes a remote call, and embed_batch of n texts returns n vectors of one
\* dimension.
C6_NoCredentialIsLocalOnly ==
    ~api_key =>
        /\ Degraded(Flags)
        /\ RemoteCalls = {}
        /\ emb_op = "embed_batch" =>
               /\ Returned
               /\ OneVectorPerText
               /\ \A j \in Items : emb_result.vectors[j].dim = FallbackDim

C6_Witness ==
    /\ ~api_key
    /\ emb_op = "embed_batch"
    /\ Len(emb_texts) = 5
    /\ Len(emb_result.vectors) = 5

\* C7: every remote failure is absorbed: embed_text and embed_batch return a vector
\* for every text and raise nothing to the caller.
C7_RemoteFailuresNeverSurface ==
    EmbCalled => (Returned /\ Len(emb_result.vectors) = Len(emb_texts))

-----------------------------------------------------------------------------
(* Properties of FAISSVectorStore *)

\* index.ntotal, 0 when there is no index
NumVectors(st) == IF st.index = None THEN 0 ELSE Len(TheValue(st.index).vecs)

AddCalled == vs_op = "add_documents"
Rows == vs_args.shape[1]
Is2D == Len(vs_args.shape) = 2
Width == vs_args.shape[2]
InMemoryUnchanged == InMemory(Store) = vs_pre

\* C8: in every reachable state the index holds as many vectors as there are
\* metadata records.
C8_VectorsMatchMetadata == NumVectors(Store) = Len(metadata)

C10_ZeroVectorsNoOp ==
    (AddCalled /\ Rows = 0) =>
        /\ InMemoryUnchanged
        /\ vs_args.documents = 0 => vs_err = "none"

C10_Witness ==
    /\ AddCalled
    /\ Rows = 0 /\ vs_args.documents = 0
    /\ Is2D
    /\ vs_pre.index = None
    /\ index = None /\ dimension = None
    /\ vs_err = "none"

-----------------------------------------------------------------------------
(* Properties of search, of loading and saving, and of clear *)

SearchCalled == vs_op = "search"
InitCalled == vs_op = "__init__"
SaveCalled == vs_op = "save_index"
ClearCalled == vs_op = "clear"
PreVectors == NumVectors(vs_pre)
PreEntries == Len(vs_pre.metadata)
QueryFits == vs_pre.index # None /\ vs_args.query.width = TheValue(vs_pre.index).d
K == EffectiveK(vs_args.top_k)
Hits == DOMAIN vs_result
\* Every query and every top_k of the model.
AllQueries == {[v |-> v, width |-> w] : v \in Queries, w \in Dims}
SameAnswers(st1, st2) ==
    \A query \in AllQueries, top_k \in TopKs :
        search_fn(st1, query, top_k) = search_fn(st2, query, top_k)
\* The same, for the default top_k only.
SameDefaultAnswers(st1, st2) ==
    \A query \in AllQueries :
        search_fn(st1, query, None) = search_fn(st2, query, None)

\* C11: a search with top_k above the number n >= 1 of stored entries (as many
\* vectors as records, a query of the index's width) raises nothing and returns n
\* results, one for each stored entry and none twice.
C11_LargeKReturnsEachEntryOnce ==
    (SearchCalled /\ PreEntries >= 1 /\ PreVectors = PreEntries /\ QueryFits
         /\ K > PreEntries) =>
        /\ vs_err = "none"
        /\ Len(vs_result) = PreEntries
        /\ \A e \in DOMAIN vs_pre.metadata :
               Cardinality({j \in Hits : vs_result[j].doc = vs_pre.metadata[e]}) = 1

\* C12: a search on a store with no index or with no metadata record returns the
\* empty list and raises nothing, whatever the query and top_k.
C12_EmptyStoreReturnsNothing ==
    (SearchCalled /\ (vs_pre.index = None \/ PreEntries = 0)) =>
        /\ vs_result = <<>>
        /\ vs_err = "none"

C12_Witness ==
    /\ SearchCalled
    /\ vs_pre.index # None /\ PreVectors >= 1 /\ PreEntries = 0
    /\ ~QueryFits
    /\ vs_args.top_k = None
    /\ vs_result = <<>> /\ vs_err = "none"

\* The similarity of the query of the last search to the stored vector at position p,
\* computed from the vector handed to add_documents.
TrueSimilarity(p) ==
    Similarity(L2sq(normalize_L2(vs_args.query.v),
                    normalize_L2(Raw(TheValue(vs_pre.index).vecs[p].id))))
StoredPositions == DOMAIN TheValue(vs_pre.index).vecs
\* The positions of the record returned as hit j.
PositionsOf(j) == {p \in DOMAIN vs_pre.metadata : vs_pre.metadata[p] = vs_result[j].doc}

\* C13: every similarity that search returns is 1 - d/2 for the squared distance d
\* between the normalised query and a normalised stored vector, and lies between
\* -1 and 1; a stored vector equal to the query gets similarity 1 for its entry.
C13_SimilarityIsCosine ==
    (SearchCalled /\ vs_err = "none") =>
        \A j \in Hits :
            /\ \E p \in StoredPositions : vs_result[j].similarity = TrueSimilarity(p)
            /\ -One <= vs_result[j].similarity /\ vs_result[j].similarity <= One
            /\ \A p \in PositionsOf(j) \cap StoredPositions :
                   TrueSimilarity(p) = One => vs_result[j].similarity = One

ExactlyOneArtifact == (index_file = None) # (metadata_file = None)

\* C14: a store constructed on a directory that holds exactly one of the two
\* artifacts is empty (no index, no metadata record, no dimension) and no error is
\* raised; _load_index on such a directory changes nothing.
C14_OneArtifactLoadsNothing ==
    /\ (InitCalled /\ ExactlyOneArtifact) =>
           /\ index = None /\ metadata = <<>> /\ dimension = None
           /\ vs_err = "none"
    /\ (vs_op = "_load_index" /\ ExactlyOneArtifact) =>
           /\ InMemoryUnchanged
           /\ vs_err = "none"

C14_Witness ==
    /\ InitCalled
    /\ index_file # None /\ TheValue(index_file).ok /\ metadata_file = None
    /\ vs_pre.index # None /\ PreEntries >= 1
    /\ index = None /\ metadata = <<>> /\ dimension = None

\* A state add_documents leaves: nothing, or an index of the store's dimension with
\* as many vectors as records.
BuiltByAdds(st) ==
    \/ st.index = None /\ st.metadata = <<>> /\ st.dimension = None
    \/ /\ st.index # None
       /\ st.dimension = Some(TheValue(st.index).d)
       /\ NumVectors(st) = Len(st.metadata)

SavedThenLoaded ==
    InitCalled /\ vs_prev = [op |-> "save_index", err |-> "none"]

\* C15: after save_index has succeeded on a state built by add_documents, a new
\* store constructed on the same directory reports the same get_stats and gives
\* the same search results for every query and top_k.
C15_SaveLoadRoundTrip ==
    (SavedThenLoaded /\ BuiltByAdds(vs_pre)) =>
        /\ get_stats(Store) = get_stats(vs_pre)
        /\ SameAnswers(Store, vs_pre)

C15_Witness ==
    /\ SavedThenLoaded
    /\ BuiltByAdds(vs_pre)
    /\ PreEntries = MaxEntries
    /\ Len(metadata) = MaxEntries
    /\ \E query \in AllQueries : Len(search_fn(Store, query, Some(MaxK)).hits) = MaxK

Cleared ==
    /\ get_stats(Store).num_documents = 0
    /\ get_stats(Store).dimension = None
    /\ index_file = None /\ metadata_file = None

\* C16: after clear, and after a second clear at once, get_stats reports no document
\* and no dimension and neither artifact exists; the second clear raises nothing;
\* a store constructed after clear has no index.
C16_ClearIsIdempotent ==
    /\ ClearCalled => (Cleared /\ index = None)
    /\ (ClearCalled /\ vs_prev.op = "clear") => (vs_err = "none" /\ InMemoryUnchanged)
    /\ (InitCalled /\ vs_prev.op = "clear") => (Cleared /\ index = None)

C16_Witness ==
    /\ ClearCalled /\ vs_prev.op = "clear"
    /\ Cleared /\ vs_err = "none"
    /\ next_id = 1

\* C17: when a write of save_index fails, the call raises and the stored vectors,
\* the metadata and the dimension are as before, so a search (here with the default
\* top_k) answers every query as before.
C17_FailedSaveKeepsMemory ==
    (SaveCalled /\ vs_args.fault # "none") =>
        /\ vs_err # "none"
        /\ InMemoryUnchanged
        /\ SameDefaultAnswers(Store, vs_pre)

C17_Witness ==
    /\ SaveCalled
    /\ vs_args.fault = "metadata_truncated"
    /\ vs_err = "IOError"
    /\ PreEntries >= 1
    /\ metadata_file = Some(Truncated)
    /\ Len(metadata) = PreEntries

-----------------------------------------------------------------------------
(* Properties of TextChunker *)

Chunked == ck_op = "chunk_document"
AllSentences == [k \in 1..Len(document.pieces) |-> k]
TotalTokens == count_tokens(document, AllSentences)
NonEmpty == document.pieces # <<>>

\* C18 as the specification states it: chunk_document on a non-empty document with
\* fewer than min_chunk_size tokens in all returns exactly one chunk.
C18_ShortDocumentYieldsOneChunk ==
    (Chunked /\ NonEmpty /\ TotalTokens < min_chunk_size) => Len(chunks) = 1

\* C18: chunk_document on a non-empty document with fewer than min_chunk_size
\* tokens in all returns no chunk, for sectioned and for plain-text documents.
C18_ShortDocumentYieldsNoChunk ==
    (Chunked /\ NonEmpty /\ TotalTokens < min_chunk_size) => chunks = <<>>

C18_Witness ==
    /\ Chunked
    /\ document.sectioned
    /\ Len(document.pieces) = 2
    /\ document.breaks[1] = "section"
    /\ min_chunk_size = settings_min_chunk_size
    /\ TotalTokens > 0 /\ TotalTokens < min_chunk_size
    /\ chunks = <<>>

\* C19: every chunk chunk_document returns has at least min_chunk_size tokens,
\* unless it is the only chunk returned.
C19_ChunksMeetMinimum ==
    Chunked =>
        \/ Len(chunks) = 1
        \/ \A c \in DOMAIN chunks : chunks[c].tokens >= min_chunk_size

\* A buffer below min_chunk_size was dropped between two chunks that were kept.
C19_Witness ==
    /\ Chunked
    /\ document.sectioned
    /\ Len(chunks) >= 2
    /\ \E k \in DOMAIN document.pieces :
          /\ document.pieces[k] < min_chunk_size
          /\ \A c \in DOMAIN chunks : \A j \in DOMAIN chunks[c].text : chunks[c].text[j] # k
    /\ \A c \in DOMAIN chunks : chunks[c].tokens >= min_chunk_size

\* C20: every chunk chunk_document returns, of whatever type, has at most
\* chunk_size tokens.
C20_ChunksWithinChunkSize ==
    Chunked => \A c \in DOMAIN chunks : chunks[c].tokens <= chunk_size

RECURSIVE SumTokens(_)
SumTokens(cs) == IF cs = <<>> THEN 0 ELSE Head(cs).tokens + SumTokens(Tail(cs))

\* C21: the token counts of the chunks of a document add up to at most the tokens
\* of the document plus chunk_overlap for every chunk after the first.
C21_OverlapIsOnlyDuplication ==
    (Chunked /\ Len(chunks) >= 1) =>
        SumTokens(chunks) <= TotalTokens + chunk_overlap * (Len(chunks) - 1)

\* The sentences of chunk c, as a set.
TextOf(c) == {chunks[c].text[j] : j \in DOMAIN chunks[c].text}
\* The paragraphs of a sectioned document, each as the set of its sentences.
AllParagraphs ==
    LET ps == Segments(document, 1, Len(document.pieces), {"paragraph", "section"})
    IN  {{ps[p][j] : j \in DOMAIN ps[p]} : p \in DOMAIN ps}
\* The paragraphs that _split_large_section splits by sentences: above chunk_size.
OversizedParagraphs ==
    {P \in AllParagraphs :
        count_tokens(document, [j \in 1..Cardinality(P) |->
                                   CHOOSE k \in P : Cardinality({i \in P : i < k}) = j - 1])
            > chunk_size}

\* C24: in a sectioned document, a chunk that holds a sentence of a paragraph above
\* chunk_size holds no sentence of an earlier paragraph, and no sentence is in two
\* chunks.
C24_SentenceSplitStaysInParagraph ==
    (Chunked /\ document.sectioned) =>
        /\ \A P \in OversizedParagraphs : \A c \in DOMAIN chunks :
               TextOf(c) \cap P # {} =>
                   \A k \in TextOf(c) : \E i \in P : i <= k
        /\ \A c, e \in DOMAIN chunks : c # e => TextOf(c) \cap TextOf(e) = {}

\* ---- the scenario of C22: section 1, Intro, of 80 tokens; section 2, Body, of 600.
SetOf(ids) == {ids[j] : j \in DOMAIN ids}
IntroBody ==
    /\ Chunked /\ document.sectioned
    /\ chunk_size = settings_chunk_size
    /\ Len(Sections(document)) = 2
    /\ count_tokens(document, Sections(document)[1]) = 80
    /\ count_tokens(document, Sections(document)[2]) = 600
Intro == SetOf(Sections(document)[1])
Body == SetOf(Sections(document)[2])
BodyChunks == {c \in DOMAIN chunks : TextOf(c) \cap Body # {}}
BodyParagraphs == {P \in AllParagraphs : P \subseteq Body}
HasHeadingBody(c) == chunks[c].heading = Some(2)

LongestSuffix(ids) ==
    LET fits == {b \in 1..(Len(ids) + 1) :
                    count_tokens(document, SubSeq(ids, b, Len(ids))) <= chunk_overlap}
    IN  SubSeq(ids, CHOOSE b \in fits : \A e \in fits : b <= e, Len(ids))
IsPrefix(p, q) == Len(p) <= Len(q) /\ SubSeq(q, 1, Len(p)) = p
\* The sentence that overflowed the buffer returned as chunk c.
Trigger(c) == chunks[c].text[Len(chunks[c].text)] + 1
\* Chunk c was flushed by a sentence that overflowed, and the next chunk is the
\* buffer that sentence started.
SentenceOverflow(c) ==
    /\ c + 1 \in DOMAIN chunks
    /\ Trigger(c) \in TextOf(c + 1)

\* C25: after an overflow at a sentence, in split_by_size and in the sentence split
\* of a paragraph above chunk_size alike, the new buffer is the longest suffix of the
\* flushed sentences that fits in chunk_overlap, followed by that sentence.
C25_OverlapSeedsNextBuffer ==
    Chunked =>
        \A c \in DOMAIN chunks :
            (chunks[c].chunk_type \in {"fixed_size", "sentence"} /\ SentenceOverflow(c)) =>
                IsPrefix(LongestSuffix(chunks[c].text) \o <<Trigger(c)>>, chunks[c + 1].text)

-----------------------------------------------------------------------------
(* Further properties of EmbeddingGenerator and FAISSVectorStore *)

\* C27: embed_batch returns, and all the vectors it returns have one dimension, also
\* when some items were embedded remotely and others locally.
C27_BatchHasOneDimension ==
    emb_op = "embed_batch" => (Returned /\ SameDim(emb_result.vectors))

\* C28: in every reachable state the store has no index exactly when its dimension
\* is None.
C28_IndexAbsentIffNoDimension == (index = None) <=> (dimension = None)

\* The names of the vectors in the vector file, in order.
FileVectorNames ==
    [k \in DOMAIN TheValue(index_file).vecs |-> TheValue(index_file).vecs[k].id]

\* C29: whenever both artifacts exist and can be read, the vector file and the
\* metadata file hold the same entries in the same order.
C29_ArtifactsAgree ==
    (BothExist(Store) /\ TheValue(index_file).ok /\ TheValue(metadata_file).ok) =>
        FileVectorNames = TheValue(metadata_file).docs

-----------------------------------------------------------------------------
(* Properties of the service *)

\* The retrieval of the last query, done again: it found nothing and raised nothing.
RetrievalEmpty ==
    /\ rag_agent # None
    /\ LET r == retrieve_context(TheValue(rag_agent), svc_request.query, svc_request.top_k)
       IN  r.err = "none" /\ r.hits = <<>>

\* C23: when retrieval finds no context chunk, RAGAgent.query returns the "no
\* relevant information" answer with no sources, raises nothing and does not call
\* the generation model.
C23_EmptyRetrievalIsNormal ==
    (svc_op = "RAGAgent.query" /\ RetrievalEmpty) =>
        /\ svc_response.raised = "none"
        /\ svc_response.answer = "no relevant information"
        /\ svc_response.sources = <<>>
        /\ svc_response.num_sources = 0
        /\ svc_response.llm_calls = 0

C23_Witness ==
    /\ svc_op = "RAGAgent.query"
    /\ RetrievalEmpty
    /\ svc_response.answer = "no relevant information"

\* build_index has run to its end with at least one chunk.
BuildCompleted ==
    /\ svc_op = "rebuild_index"
    /\ svc_response.status = "success"
    /\ all_chunks # <<>>

\* The names of the vectors in the directory's vector file, in order.
PersistedVectorNames ==
    [k \in DOMAIN TheValue(faiss_index_path.index_file).vecs |->
        TheValue(faiss_index_path.index_file).vecs[k].id]

\* C26: after build_index completes, the directory holds exactly the chunks of that
\* build, one entry each and in their order, whatever it held before.
C26_IndexHoldsTheChunksOfTheBuild ==
    BuildCompleted =>
        /\ BothExist(faiss_index_path)
        /\ TheValue(faiss_index_path.metadata_file).docs = all_chunks
        /\ PersistedVectorNames = all_chunks

\* The rebuild route has answered success with at least one indexed chunk, in a
\* service that has an agent.
RebuiltWithChunks ==
    /\ rag_agent # None
    /\ svc_op = "rebuild_index"
    /\ svc_response.status = "success"
    /\ svc_response.num_documents # None
    /\ TheValue(svc_response.num_documents) >= 1

AgentReady == rag_agent # None /\ is_ready(TheValue(rag_agent))

\* C30: after the rebuild route has answered success with at least one indexed
\* chunk, the agent that serves the queries becomes ready.
C30_RebuildMakesAgentReady == RebuiltWithChunks ~> AgentReady

=============================================================================
